---------------------------- MODULE Spec2Model ----------------------------
(***************************************************************************)
(* MindGuard AI (src/app.py): a Streamlit script that is re-run from top   *)
(* to bottom on every user interaction.  The state that survives a run is  *)
(* st.session_state (history, entries), the widgets' values and the report *)
(* file on disk; everything else is the page the latest run rendered.      *)
(*                                                                         *)
(* Texts and labels are sequences of one-character strings, so that        *)
(* str.strip, str.lower and the substring test `word in text` are computed *)
(* character by character.  A classifier score is a fixed-point number: the*)
(* integer k stands for the confidence k / Scale.                          *)
(***************************************************************************)
EXTENDS Integers, Sequences, FiniteSets, TLC

VARIABLES
    history,         \* st.session_state.history: the risk scores
    entries,         \* st.session_state.entries: the entry texts
    user_input,      \* the text area's value in the latest run
    clicked,         \* the button that triggered the latest run
    classifier_call, \* "not_called", "raised" or "returned" in the latest run
    emotion_scores,  \* results[0] of the latest run (<<>> when there is none)
    analysis,        \* <<>> or <<r>>: the Emotional Analysis section rendered
    alert,           \* "none", "empty_input" (st.warning) or "exception"
    table,           \* the rows of df rendered by the latest run
    export_offered,  \* the Export PDF Report button is on the page
    export_result,   \* how the export of the latest run ended
    saved_msg,       \* st.success("PDF report saved ...") was rendered
    report,          \* <<>> or <<doc>>: MindGuard_Report.pdf on disk
    analysed         \* history variable: the number of analyses that ran to the end

vars == <<history, entries, user_input, clicked, classifier_call, emotion_scores,
          analysis, alert, table, export_offered, export_result, saved_msg,
          report, analysed>>

---------------------------------------------------------------------------
(* Bounds of the model. *)

MaxEntries == 2   \* journal entries per session
MaxFrags == 2     \* fragments per typed text
MaxPairs == 2     \* (label, score) pairs per classifier output
Scale == 8        \* a score k stands for the confidence k / Scale

---------------------------------------------------------------------------
(* Characters and strings. *)

UpperCase == <<"A","B","C","D","E","F","G","H","I","J","K","L","M",
               "N","O","P","Q","R","S","T","U","V","W","X","Y","Z">>

LowerCase == <<"a","b","c","d","e","f","g","h","i","j","k","l","m",
               "n","o","p","q","r","s","t","u","v","w","x","y","z">>

Whitespace == {" ", "\t", "\n", "\r"}

LowerChar(c) ==
    IF \E i \in 1..Len(UpperCase) : UpperCase[i] = c
    THEN LowerCase[CHOOSE i \in 1..Len(UpperCase) : UpperCase[i] = c]
    ELSE c

\* str.lower()
Lower(s) == [i \in 1..Len(s) |-> LowerChar(s[i])]

RECURSIVE LStrip(_)
LStrip(s) ==
    IF s # <<>> /\ Head(s) \in Whitespace THEN LStrip(Tail(s)) ELSE s

RECURSIVE RStrip(_)
RStrip(s) ==
    IF s # <<>> /\ s[Len(s)] \in Whitespace
    THEN RStrip(SubSeq(s, 1, Len(s) - 1))
    ELSE s

\* A strip that removes blanks only.
StripSpacesOnly(s) ==
    LET RECURSIVE L(_)
        L(t) == IF t # <<>> /\ Head(t) = " " THEN L(Tail(t)) ELSE t
        RECURSIVE R(_)
        R(t) == IF t # <<>> /\ t[Len(t)] = " "
                THEN R(SubSeq(t, 1, Len(t) - 1)) ELSE t
    IN  R(L(s))

\* str.strip()
Strip(s) == RStrip(LStrip(s))

\* word in text
Contains(text, word) ==
    \E i \in 0..(Len(text) - Len(word)) :
        SubSeq(text, i + 1, i + Len(word)) = word

---------------------------------------------------------------------------
(* The tables of the program. *)

sadness == <<"s","a","d","n","e","s","s">>
fear == <<"f","e","a","r">>
anger == <<"a","n","g","e","r">>
joy == <<"j","o","y">>
surprise == <<"s","u","r","p","r","i","s","e">>
neutral == <<"n","e","u","t","r","a","l">>

coping_tips ==
    (sadness :> <<"Take a 5-minute break and breathe deeply.",
                  "Talk to a friend or a trusted adult.",
                  "Write down your thoughts in a journal.">>)
    @@ (fear :> <<"Practice grounding techniques (5 senses exercise).",
                  "List what is in your control.",
                  "Take slow, deep breaths.">>)
    @@ (anger :> <<"Take a short walk to release tension.",
                   "Try writing your feelings in a notebook.",
                   "Count to 10 before reacting.">>)
    @@ (joy :> <<"Share your happiness with someone you care about.",
                 "Keep a gratitude journal.",
                 "Celebrate small wins!">>)
    @@ (surprise :> <<"Take a moment to process the situation.",
                      "Reflect on what this means for you.",
                      "Share your thoughts with someone you trust.">>)
    @@ (neutral :> <<"Reflect on your day and plan one positive activity.",
                     "Take a short break to reset your focus.">>)

DefaultTips == <<"Take a break and focus on self-care.">>

crisis_keywords ==
    << <<"s","u","i","c","i","d","e">>,
       <<"h","o","p","e","l","e","s","s">>,
       <<"u","n","s","a","f","e">>,
       <<"e","n","d"," ","m","y"," ","l","i","f","e">>,
       <<"s","e","l","f","-","h","a","r","m">> >>

NegativeEmotions == {sadness, fear, anger}

---------------------------------------------------------------------------
(* The steps of the Analyze handler. *)

\* any(word in user_input.lower() for word in crisis_keywords)
CrisisFlag(text) ==
    \E lowered \in {Lower(text)} :
        \E k \in 1..Len(crisis_keywords) : Contains(lowered, crisis_keywords[k])

RECURSIVE MaxFrom(_, _, _)
\* max(): scans from left to right and replaces the best only by a strictly
\* greater score, so the first of several maxima is returned.
MaxFrom(scores, i, best) ==
    IF i > Len(scores) THEN best
    ELSE MaxFrom(scores, i + 1,
                 IF scores[i].score > scores[best].score THEN i ELSE best)

RECURSIVE MaxFromLast(_, _, _)
MaxFromLast(scores, i, best) ==
    IF i > Len(scores) THEN best
    ELSE MaxFromLast(scores, i + 1,
                     IF scores[i].score >= scores[best].score THEN i ELSE best)

\* A selection that keeps the last of several maxima.
TopEmotionLast(scores) == scores[MaxFromLast(scores, 2, 1)]

\* max(emotion_scores, key=lambda x: x["score"])
TopEmotion(scores) == scores[MaxFrom(scores, 2, 1)]

\* int() of the rational num / den (den > 0): truncation toward zero.
IntTrunc(num, den) ==
    IF num >= 0 THEN num \div den ELSE -((-num) \div den)

\* A score that rounds the negative-emotion product up.
RiskScoreRoundUp(crisis_flag, emotion, confidence) ==
    IF crisis_flag THEN 10
    ELSE IF emotion \in NegativeEmotions
         THEN (confidence * 10 + Scale - 1) \div Scale
         ELSE IntTrunc((Scale - confidence) * 5, Scale)

\* A score that forgets the complement in the last branch.
RiskScoreNoComplement(crisis_flag, emotion, confidence) ==
    IF crisis_flag THEN 10
    ELSE IF emotion \in NegativeEmotions
         THEN IntTrunc(confidence * 10, Scale)
         ELSE IntTrunc(confidence * 5, Scale)

\* A score in which the emotion is looked at before the crisis flag.
RiskScoreCrisisLast(crisis_flag, emotion, confidence) ==
    IF emotion \in NegativeEmotions
    THEN IntTrunc(confidence * 10, Scale)
    ELSE IF crisis_flag THEN 10
         ELSE IntTrunc((Scale - confidence) * 5, Scale)

\* risk_score; confidence is in units of 1 / Scale
RiskScore(crisis_flag, emotion, confidence) ==
    IF crisis_flag THEN 10
    ELSE IF emotion \in NegativeEmotions
         THEN IntTrunc(confidence * 10, Scale)
         ELSE IntTrunc((Scale - confidence) * 5, Scale)

\* A tier whose upper threshold is strict.
SeverityStrict(crisis_flag, risk_score) ==
    IF crisis_flag \/ risk_score > 8 THEN "high distress"
    ELSE IF risk_score >= 5 THEN "moderate risk"
    ELSE "stable"

\* the color-coded message
Severity(crisis_flag, risk_score) ==
    IF crisis_flag \/ risk_score >= 8 THEN "high distress"
    ELSE IF risk_score >= 5 THEN "moderate risk"
    ELSE "stable"

\* A lookup without the default.
TipsNoDefault(emotion) ==
    IF emotion \in DOMAIN coping_tips THEN coping_tips[emotion] ELSE <<>>

\* coping_tips.get(emotion, [...])
Tips(emotion) ==
    IF emotion \in DOMAIN coping_tips THEN coping_tips[emotion] ELSE DefaultTips

\* An append at the wrong end.
PrependEntry(list, x) == <<x>> \o list

\* list.append(x)
AppendEntry(list, x) == Append(list, x)

---------------------------------------------------------------------------
(* The Trend Graph + History Table section and the export. *)

Min(a, b) == IF a < b THEN a ELSE b

\* pd.DataFrame({"Entry": entries, "Risk Level": history}): one row per index
DataFrame(es, hs) == [i \in 1..Len(hs) |-> [Entry |-> es[i], RiskLevel |-> hs[i]]]

\* the blocks of the document: enumerate(zip(entries, history), start=1)
ReportBlocks(es, hs) ==
    [i \in 1..Min(Len(es), Len(hs)) |-> [ordinal |-> i, entry |-> es[i], risk |-> hs[i]]]

\* What the section from `if len(history) > 0` to the button renders for journal
\* (es, hs); pd.DataFrame raises on columns of different lengths.
TrendRaises(es, hs) == Len(hs) > 0 /\ Len(es) # Len(hs)

TrendTable(es, hs) ==
    IF Len(hs) > 0 /\ ~TrendRaises(es, hs) THEN DataFrame(es, hs) ELSE <<>>

TrendOffersExport(es, hs) == Len(hs) > 0 /\ ~TrendRaises(es, hs)


---------------------------------------------------------------------------
(* The inputs: what the user types and what the classifier answers. *)

Fragments == { <<" ", "\n">>, <<"H","o","p","e">>, <<"l","e","s","s">> }

RECURSIVE TextsOf(_)
TextsOf(n) ==
    IF n = 0 THEN {<<>>}
    ELSE LET shorter == TextsOf(n - 1)
         IN  shorter \cup {t \o f : t \in shorter, f \in Fragments}

\* Every text of at most MaxFrags fragments, "Hopeless" and " \n \n" among them.
Texts == TextsOf(MaxFrags)

\* The labels the classifier answers with: one the handler has to lower-case,
\* one of the advice table and one the advice table does not hold.
ClassifierLabels ==
    { <<"F","e","a","r">>, joy, <<"d","i","s","g","u","s","t">> }

Pairs == [label : ClassifierLabels, score : 0..Scale]

RECURSIVE ScoreLists(_)
\* The lists of at most n pairs, no label twice: the pipeline scores each label once.
ScoreLists(n) ==
    IF n = 0 THEN {<<>>}
    ELSE LET shorter == ScoreLists(n - 1)
             Unused(l) == {p \in Pairs : \A i \in 1..Len(l) : l[i].label # p.label}
         IN  shorter \cup UNION { {Append(l, p) : p \in Unused(l)} : l \in shorter }

\* The answers of classifier(user_input): it raises, or returns results whose
\* results[0] is a list of at most MaxPairs pairs (an empty one among them).
ClassifierOutcomes ==
    {[call |-> "raised", scores |-> <<>>]}
    \cup {[call |-> "returned", scores |-> l] : l \in ScoreLists(MaxPairs)}

\* The inputs of the session specification: the empty text, a whitespace-only
\* text, a text without and a text with a crisis keyword; the classifier raising
\* or returning at most one pair.
SessionTexts ==
    { <<>>, <<" ", "\n">>, <<"l","e","s","s">>, <<"H","o","p","e","l","e","s","s">> }

SessionOutcomes == {o \in ClassifierOutcomes : Len(o.scores) <= 1}

ExportOutcomes == {"saved", "image_failed", "pdf_failed"}

---------------------------------------------------------------------------
(* The state after the first run of the script: nothing typed, nothing clicked. *)

Init ==
    /\ history = <<>>
    /\ entries = <<>>
    /\ user_input = <<>>
    /\ clicked = "none"
    /\ classifier_call = "not_called"
    /\ emotion_scores = <<>>
    /\ analysis = <<>>
    /\ alert = "none"
    /\ table = <<>>
    /\ export_offered = FALSE
    /\ export_result = "none"
    /\ saved_msg = FALSE
    /\ report = <<>>
    /\ analysed = 0

\* An uncaught exception ends the run: what follows the raising statement is
\* neither executed nor rendered.  The call itself raises, or it returns
\* nothing to index or to take a maximum of (results[0], max() raise).
Raises(out) == out.call = "raised" \/ out.scores = <<>>

\* The alert of a run that reached the trend section with journal (es, hs).
PageAlert(handlerAlert, es, hs) ==
    IF TrendRaises(es, hs) THEN "exception" ELSE handlerAlert

\* Analyze on an empty or whitespace-only text: st.warning, nothing else.
AnalyzeEmpty(text) ==
    /\ Strip(text) = <<>>
    /\ user_input' = text
    /\ clicked' = "analyze"
    /\ classifier_call' = "not_called"
    /\ emotion_scores' = <<>>
    /\ analysis' = <<>>
    /\ alert' = PageAlert("empty_input", entries, history)
    /\ table' = TrendTable(entries, history)
    /\ export_offered' = TrendOffersExport(entries, history)
    /\ export_result' = "none"
    /\ saved_msg' = FALSE
    /\ UNCHANGED <<history, entries, report, analysed>>

\* An aborted run that had saved the text before it called the classifier.
AnalyzeAbortedAfterSave(text, answers) ==
    /\ Strip(text) # <<>>
    /\ Len(history) < MaxEntries
    /\ \E out \in answers : Raises(out) /\ classifier_call' = out.call
    /\ user_input' = text
    /\ clicked' = "analyze"
    /\ emotion_scores' = <<>>
    /\ analysis' = <<>>
    /\ alert' = "exception"
    /\ table' = <<>>
    /\ export_offered' = FALSE
    /\ export_result' = "none"
    /\ saved_msg' = FALSE
    /\ entries' = AppendEntry(entries, text)
    /\ UNCHANGED <<history, report, analysed>>

\* Analyze when the classifier raises or returns nothing to take a maximum of:
\* the run ends in the exception, before the display, the save and the trend.
AnalyzeAborted(text, answers) ==
    /\ Strip(text) # <<>>
    /\ \E out \in answers : Raises(out) /\ classifier_call' = out.call
    /\ user_input' = text
    /\ clicked' = "analyze"
    /\ emotion_scores' = <<>>
    /\ analysis' = <<>>
    /\ alert' = "exception"
    /\ table' = <<>>
    /\ export_offered' = FALSE
    /\ export_result' = "none"
    /\ saved_msg' = FALSE
    /\ UNCHANGED <<history, entries, report, analysed>>

\* Analyze run to its end: score, display, tips, save, then the trend section.
\* Each local of the handler is bound once, as the one element of a set.
AnalyzeSaved(text, answers) ==
    /\ Strip(text) # <<>>
    /\ Len(history) < MaxEntries
    /\ \E crisis_flag \in {CrisisFlag(text)}, out \in answers :
          /\ ~Raises(out)
          /\ \E top_emotion \in {TopEmotion(out.scores)} :
             \E emotion \in {Lower(top_emotion.label)} :
             \E confidence \in {top_emotion.score} :
             \E risk_score \in {RiskScore(crisis_flag, emotion, confidence)} :
                /\ analysis' = << [emotion |-> emotion,
                                   confidence |-> confidence,
                                   risk_score |-> risk_score,
                                   crisis_flag |-> crisis_flag,
                                   severity |-> Severity(crisis_flag, risk_score),
                                   tips |-> Tips(emotion)] >>
                /\ history' = AppendEntry(history, risk_score)
                /\ entries' = AppendEntry(entries, text)
          /\ emotion_scores' = out.scores
    /\ user_input' = text
    /\ clicked' = "analyze"
    /\ classifier_call' = "returned"
    /\ alert' = PageAlert("none", entries', history')
    /\ table' = TrendTable(entries', history')
    /\ export_offered' = TrendOffersExport(entries', history')
    /\ export_result' = "none"
    /\ saved_msg' = FALSE
    /\ analysed' = analysed + 1
    /\ UNCHANGED report

\* An export that announces the report whatever happened.
ExportAnnouncesAlways(outcome) == TRUE

\* st.success after pdf.output is reached only when nothing raised before it.
ExportAnnounces(outcome) == outcome = "saved"

\* The Export PDF Report button: it exists only on a page whose run rendered it.
\* The run skips the Analyze branch, renders the trend section again and then
\* builds the document; fig.savefig / pdf.image or an FPDF call may raise.
Export(outcome) ==
    /\ export_offered
    /\ clicked' = "export"
    /\ classifier_call' = "not_called"
    /\ emotion_scores' = <<>>
    /\ analysis' = <<>>
    /\ table' = TrendTable(entries, history)
    /\ export_offered' = TrendOffersExport(entries, history)
    /\ export_result' = outcome
    /\ alert' = IF outcome = "saved" THEN "none" ELSE "exception"
    /\ saved_msg' = ExportAnnounces(outcome)
    /\ report' = IF outcome = "saved"
                 THEN << ReportBlocks(entries, history) >>
                 ELSE report
    /\ UNCHANGED <<history, entries, user_input, analysed>>

\* A session: typed texts, one-pair classifier answers, exports.  The three
\* Analyze actions are the three ways through the Analyze handler.
Next ==
    \/ \E text \in SessionTexts : AnalyzeEmpty(text)
    \/ \E text \in SessionTexts : AnalyzeAborted(text, SessionOutcomes)
    \/ \E text \in SessionTexts : AnalyzeSaved(text, SessionOutcomes)
    \/ \E outcome \in ExportOutcomes : Export(outcome)

Spec == Init /\ [][Next]_vars

\* The scorer on every text and every classifier answer: the first click of a
\* session.
FirstClick == clicked = "none"

ScorerNext ==
    \/ FirstClick /\ \E text \in Texts : AnalyzeEmpty(text)
    \/ FirstClick /\ \E text \in Texts : AnalyzeAborted(text, ClassifierOutcomes)
    \/ FirstClick /\ \E text \in Texts : AnalyzeSaved(text, ClassifierOutcomes)

ScorerSpec == Init /\ [][ScorerNext]_vars

---------------------------------------------------------------------------
(* What the claims speak of, said without the handler's own operators. *)

\* The text is empty or whitespace only.
IsBlank(text) == \A i \in 1..Len(text) : text[i] \in Whitespace

\* The lower-cased text holds a crisis keyword as a substring.
HasCrisisKeyword(text) ==
    \E low \in {[i \in 1..Len(text) |-> LowerChar(text[i])]} :
        \E k \in 1..Len(crisis_keywords) :
            \E i \in 0..(Len(low) - Len(crisis_keywords[k])) :
                \A j \in 1..Len(crisis_keywords[k]) :
                    low[i + j] = crisis_keywords[k][j]

\* The latest run was an Analyze that displayed an analysis and saved an entry.
Analysed == clicked = "analyze" /\ analysis # <<>>

\* The latest run was an Analyze whose classifier call failed.
ClassifierFailed ==
    /\ clicked = "analyze"
    /\ \/ classifier_call = "raised"
       \/ classifier_call = "returned" /\ emotion_scores = <<>>

Hopeless == <<"H","o","p","e","l","e","s","s">>

---------------------------------------------------------------------------
(* C1: an Analyze on a text that is non-empty after trimming sets the       *)
(* crisis flag exactly when the lower-cased text holds a crisis keyword,    *)
(* and then displays and saves the risk score 10, whatever the classifier   *)
(* returned.                                                                *)
C1_CrisisRiskIsTen ==
    (Analysed /\ ~IsBlank(user_input)) =>
        \E crisis \in {HasCrisisKeyword(user_input)} :
            /\ analysis[1].crisis_flag = crisis
            /\ crisis => /\ analysis[1].risk_score = 10
                         /\ history[Len(history)] = 10

\* "Hopeless" analysed while the classifier is sure of joy.
C1_Witness ==
    /\ Analysed
    /\ user_input = Hopeless
    /\ analysis[1].emotion = joy
    /\ analysis[1].confidence = Scale
    /\ analysis[1].risk_score = 10

(* C2: with the crisis flag unset and sadness, fear or anger as the primary *)
(* emotion, the risk score is floor(confidence x 10): r <= c x 10 < r + 1   *)
(* with c = confidence / Scale; it lies in 0..10.                           *)
C2_NegativeRiskIsFloorTimesTen ==
    (Analysed /\ ~analysis[1].crisis_flag
              /\ analysis[1].emotion \in {sadness, fear, anger}) =>
        LET r == analysis[1].risk_score
            c == analysis[1].confidence
        IN  /\ r \in 0..10
            /\ r * Scale <= c * 10
            /\ c * 10 < (r + 1) * Scale
            /\ history[Len(history)] = r

\* Fear at confidence 7/8 on "less": 8.75 is cut to 8.
C2_Witness ==
    /\ Analysed
    /\ ~analysis[1].crisis_flag
    /\ ~HasCrisisKeyword(user_input)
    /\ analysis[1].emotion = fear
    /\ analysis[1].confidence * 8 = 7 * Scale
    /\ analysis[1].risk_score = 8

(* C3: with the crisis flag unset and any other primary emotion, the risk   *)
(* score is floor((1 - confidence) x 5); it lies in 0..5.                   *)
C3_OtherRiskIsFloorOfComplementTimesFive ==
    (Analysed /\ ~analysis[1].crisis_flag
              /\ analysis[1].emotion \notin {sadness, fear, anger}) =>
        LET r == analysis[1].risk_score
            c == analysis[1].confidence
        IN  /\ r \in 0..5
            /\ r * Scale <= (Scale - c) * 5
            /\ (Scale - c) * 5 < (r + 1) * Scale
            /\ history[Len(history)] = r

\* A label outside the advice table at confidence 1/8: 4.375 is cut to 4.
C3_Witness ==
    /\ Analysed
    /\ ~analysis[1].crisis_flag
    /\ ~HasCrisisKeyword(user_input)
    /\ analysis[1].emotion = <<"d","i","s","g","u","s","t">>
    /\ analysis[1].confidence * 8 = Scale
    /\ analysis[1].risk_score = 4

(* C4: an Analyze on an empty or whitespace-only text shows the validation  *)
(* warning, does not call the classifier and leaves both journal lists (and *)
(* the report file) as they were.                                           *)
C4_EmptyInputChangesNothing ==
    [][ (clicked' = "analyze" /\ IsBlank(user_input')) =>
            /\ alert' = "empty_input"
            /\ classifier_call' = "not_called"
            /\ analysis' = <<>>
            /\ history' = history
            /\ entries' = entries
            /\ report' = report
            /\ analysed' = analysed ]_vars

\* A whitespace-only text rejected while the journal holds an entry.
C4_Witness ==
    /\ clicked = "analyze"
    /\ user_input = <<" ", "\n">>
    /\ alert = "empty_input"
    /\ classifier_call = "not_called"
    /\ Len(history) = 1

(* C5: when the classifier raises or returns nothing, the run shows the     *)
(* exception and saves nothing: neither journal list grows; and as long as  *)
(* the journal has room, an Analyze that runs to its end is still possible. *)
C5_ClassifierFailureSavesNothing ==
    /\ [][ ClassifierFailed' =>
             /\ alert' = "exception"
             /\ analysis' = <<>>
             /\ history' = history
             /\ entries' = entries
             /\ analysed' = analysed ]_vars
    /\ [](ClassifierFailed /\ Len(history) < MaxEntries =>
             ENABLED (\E text \in SessionTexts : AnalyzeSaved(text, SessionOutcomes)))

\* The classifier raised on a text while the journal held one entry, which it
\* still holds.
C5_Witness ==
    /\ ClassifierFailed
    /\ classifier_call = "raised"
    /\ alert = "exception"
    /\ Len(history) = 1
    /\ Len(entries) = 1
    /\ user_input # entries[1]

(* C6: the journal holds exactly as many entries as analyses ran to the end;*)
(* a step either leaves both lists alone or adds the analysed text and its  *)
(* risk score at their ends, earlier positions unchanged; the history table *)
(* and the report pair position i of one list with position i of the other. *)
C6_JournalIsAppendOnly ==
    /\ [](/\ Len(history) = analysed
          /\ Len(entries) = analysed
          /\ table # <<>> =>
                /\ Len(table) = analysed
                /\ \A i \in 1..Len(table) :
                      table[i] = [Entry |-> entries[i], RiskLevel |-> history[i]]
          /\ report # <<>> =>
                /\ Len(report[1]) \in 1..analysed
                /\ \A i \in 1..Len(report[1]) :
                      report[1][i] =
                          [ordinal |-> i, entry |-> entries[i], risk |-> history[i]])
    /\ [][ \/ history' = history /\ entries' = entries /\ analysed' = analysed
           \/ /\ analysed' = analysed + 1
              /\ Len(history') = Len(history) + 1
              /\ Len(entries') = Len(entries) + 1
              /\ \A i \in 1..Len(history) :
                    history'[i] = history[i] /\ entries'[i] = entries[i]
              /\ entries'[Len(entries')] = user_input'
              /\ history'[Len(history')] = analysis'[1].risk_score ]_vars

\* Two different entries with different scores, exported.
C6_Witness ==
    /\ analysed = 2
    /\ entries[1] # entries[2]
    /\ history[1] < history[2]
    /\ report # <<>>
    /\ Len(report[1]) = 2
    /\ Len(table) = 2

(* C7 as stated: with an empty journal an Export action is possible and     *)
(* ends in a failure reported to the user, and an Export whose plot could   *)
(* not be rendered reports the failure and announces no report.             *)
C7_ExportOnEmptyJournalIsReported ==
    /\ history = <<>> =>
          ENABLED (\E outcome \in ExportOutcomes :
                      Export(outcome) /\ alert' = "exception" /\ ~saved_msg')
    /\ (clicked = "export" /\ export_result = "image_failed") =>
          alert = "exception" /\ ~saved_msg

(* C7 amended: Export is offered, and happens, only with a non-empty        *)
(* journal; an Export whose plot could not be rendered to an image shows    *)
(* the exception, announces no report, writes no file and leaves the        *)
(* journal as it was.                                                       *)
C7_ExportOnlyWithEntriesAndFailureReported ==
    /\ [](/\ export_offered => history # <<>>
          /\ clicked = "export" => history # <<>>
          /\ history = <<>> => ~saved_msg /\ report = <<>>)
    /\ [][ (clicked' = "export" /\ export_result' = "image_failed") =>
             /\ alert' = "exception"
             /\ ~saved_msg'
             /\ report' = report
             /\ history' = history
             /\ entries' = entries ]_vars

\* An export of a two-entry journal that failed at the image.
C7_Witness ==
    /\ clicked = "export"
    /\ export_result = "image_failed"
    /\ alert = "exception"
    /\ Len(history) = 2
    /\ Len(entries) = 2

(* C8: the advice lookup answers every label with a non-empty tip sequence: *)
(* a label of the advice table with that label's tips, any other label with *)
(* the one default tip.  Said of the tips an analysis displays and of every *)
(* label of the table and of the classifier.                                *)
C8_AdviceLookupIsTotal ==
    /\ Analysed =>
          LET e == analysis[1].emotion
              t == analysis[1].tips
          IN  /\ Len(t) >= 1
              /\ e \in DOMAIN coping_tips => t = coping_tips[e]
              /\ e \notin DOMAIN coping_tips =>
                    t = <<"Take a break and focus on self-care.">>
    /\ \A l \in DOMAIN coping_tips \cup {Lower(c) : c \in ClassifierLabels} :
          /\ Len(Tips(l)) >= 1
          /\ l \in DOMAIN coping_tips => Tips(l) = coping_tips[l]
          /\ l \notin DOMAIN coping_tips =>
                Tips(l) = <<"Take a break and focus on self-care.">>

\* A label outside the advice table displayed with the default tip.
C8_Witness ==
    /\ Analysed
    /\ analysis[1].emotion = <<"d","i","s","g","u","s","t">>
    /\ analysis[1].emotion \notin DOMAIN coping_tips
    /\ analysis[1].tips = <<"Take a break and focus on self-care.">>

(* C9: the severity tier displayed is decided by the crisis flag and the    *)
(* risk score alone: high distress when the flag is set or the score is 8   *)
(* or more, else moderate risk from 5 on, else stable; and the score saved  *)
(* to the journal and shown in the table is the score displayed.            *)
C9_SeverityFollowsFlagAndScore ==
    Analysed =>
        LET a == analysis[1]
        IN  /\ a.severity \in {"high distress", "moderate risk", "stable"}
            /\ a.severity = "high distress" <=> (a.crisis_flag \/ a.risk_score >= 8)
            /\ a.severity = "moderate risk" <=>
                  (~a.crisis_flag /\ a.risk_score >= 5 /\ a.risk_score < 8)
            /\ a.severity = "stable" <=> (~a.crisis_flag /\ a.risk_score < 5)
            /\ history[Len(history)] = a.risk_score
            /\ table[Len(table)].RiskLevel = a.risk_score

\* A score of exactly 8 without a crisis keyword: high distress.
C9_Witness ==
    /\ Analysed
    /\ ~analysis[1].crisis_flag
    /\ analysis[1].risk_score = 8
    /\ analysis[1].severity = "high distress"
    /\ history = <<8>>

(* C10: the primary emotion and the confidence are those of the first pair, *)
(* in the classifier's order, whose score is the maximum.                   *)
C10_FirstMaximumIsPrimary ==
    Analysed =>
        \E i \in 1..Len(emotion_scores) :
            /\ \A j \in 1..Len(emotion_scores) :
                  emotion_scores[j].score <= emotion_scores[i].score
            /\ \A j \in 1..(i - 1) :
                  emotion_scores[j].score < emotion_scores[i].score
            /\ analysis[1].emotion = Lower(emotion_scores[i].label)
            /\ analysis[1].confidence = emotion_scores[i].score

\* Two labels share the maximum; the first one, "Fear", is the primary emotion.
C10_Witness ==
    /\ Analysed
    /\ Len(emotion_scores) = 2
    /\ emotion_scores[1].label = <<"F","e","a","r">>
    /\ emotion_scores[2].label = joy
    /\ emotion_scores[1].score = emotion_scores[2].score
    /\ analysis[1].emotion = fear

=============================================================================
